---- MODULE Spec2Model ----
(***************************************************************************)
(* cpwln: copy a file to a destination and replace the file and every      *)
(* hard link to it (found through a glob pattern) by a symbolic link to    *)
(* the copy.  Model of src/src/main.rs: the SourceCounter inventory, the   *)
(* discovery loop, the completeness gate, ensure_dir, move_counter and     *)
(* replace_with_symlink, over a small POSIX file tree.                     *)
(***************************************************************************)
EXTENDS Integers, Sequences, FiniteSets, TLC

\* ------------------------------------------------------------------ bounds
MaxSources == 2
MaxMatches == 2

\* Symbolic-link hops followed by one path resolution before ELOOP.
MaxSymlinkHops == 4

\* ------------------------------------------------------------- path values
\* A path string is the sequence of its '/'-separated components.
Names == {"a", "b", "s", "m", "out"}

\* Directory entries of the modelled tree: <<"a">> is ./a, <<"m","a">> is m/a.
Locs == {<<n>> : n \in Names} \cup {<<d, n>> : d \in Names, n \in Names}

Last(p) == p[Len(p)]
Front(p) == SubSeq(p, 1, Len(p) - 1)
Range(s) == {s[i] : i \in 1..Len(s)}

NoName == "?"

RECURSIVE StripCurDir(_)
StripCurDir(p) ==
  IF p # <<>> /\ Last(p) = "." THEN StripCurDir(Front(p)) ELSE p

\* RelativePath::file_name: the last component, trailing "." skipped;
\* none for an empty path or one ending in "..".
file_name(p) ==
  LET q == StripCurDir(p) IN
    IF q = <<>> \/ Last(q) = ".." THEN NoName ELSE Last(q)

\* RelativePath::parent (defined for a non-empty path).
parent(p) ==
  LET q == StripCurDir(p) IN IF q = <<>> THEN <<>> ELSE Front(q)

\* RelativePath::join with one component.
join(p, name) == Append(p, name)

\* relative_path's lexical normalisation: "." dropped, ".." cancels a
\* preceding normal component.
RECURSIVE relative_traversal(_, _)
relative_traversal(buf, comps) ==
  IF comps = <<>> THEN buf
  ELSE LET c == Head(comps) IN
    IF c = "." THEN relative_traversal(buf, Tail(comps))
    ELSE IF c = ".."
      THEN IF buf # <<>> /\ Last(buf) # ".."
             THEN relative_traversal(Front(buf), Tail(comps))
             ELSE relative_traversal(Append(buf, ".."), Tail(comps))
      ELSE relative_traversal(Append(buf, c), Tail(comps))

RECURSIVE StripCommon(_, _)
StripCommon(f, t) ==
  IF f # <<>> /\ t # <<>> /\ Head(f) = Head(t)
    THEN StripCommon(Tail(f), Tail(t))
    ELSE <<f, t>>

\* RelativePath::relative: the path leading from directory `from` to `to`,
\* computed on the spellings alone.
relative(from, to) ==
  LET r == StripCommon(relative_traversal(<<>>, from), relative_traversal(<<>>, to))
      f == r[1]
      t == r[2]
  IN IF f # <<>> /\ Head(f) = ".." THEN <<>>
     ELSE [i \in 1..Len(f) |-> ".."] \o t

\* ------------------------------------------------------------- file system
NoNode == [kind |-> "none", dev |-> 0, ino |-> 0, target |-> <<>>]
FileNode(d, i) == [kind |-> "file", dev |-> d, ino |-> i, target |-> <<>>]
DirNode(d, i) == [kind |-> "dir", dev |-> d, ino |-> i, target |-> <<>>]
LinkNode(t) == [kind |-> "symlink", dev |-> 0, ino |-> 0, target |-> t]

\* The working directory, on device 1.
RootNode == DirNode(1, 100)

NodeAt(f, loc) ==
  IF loc = <<>> THEN RootNode ELSE IF loc \in Locs THEN f[loc] ELSE NoNode

ObjOf(n) == <<n.dev, n.ino>>

PathErr == [err |-> TRUE, loc |-> <<>>]

\* Path resolution from the working directory.  `follow` says whether a
\* symbolic link in the last component is followed (stat, open) or not
\* (unlink, symlink).  The result names the entry reached, which may be
\* missing when only the last component does not exist.
RECURSIVE Walk(_, _, _, _, _)
Walk(f, cur, rest, follow, fuel) ==
  IF rest = <<>> THEN [err |-> FALSE, loc |-> cur]
  ELSE IF NodeAt(f, cur).kind # "dir" THEN PathErr
  ELSE LET c == Head(rest)
           t == Tail(rest)
       IN IF c = "." THEN Walk(f, cur, t, follow, fuel)
          ELSE IF c = ".."
            THEN Walk(f, IF cur = <<>> THEN <<>> ELSE Front(cur), t, follow, fuel)
          ELSE LET nxt == Append(cur, c)
                   n == NodeAt(f, nxt)
               IN IF n.kind = "symlink" /\ (t # <<>> \/ follow)
                    THEN IF fuel = 0 THEN PathErr
                         ELSE Walk(f, cur, n.target \o t, follow, fuel - 1)
                    ELSE Walk(f, nxt, t, follow, fuel)

Resolve(f, p, follow) ==
  IF p = <<>> THEN PathErr ELSE Walk(f, <<>>, p, follow, MaxSymlinkHops)

\* fs::metadata / Path::metadata: stat(2), following symbolic links.
metadata(f, p) ==
  LET r == Resolve(f, p, TRUE)
      n == NodeAt(f, r.loc)
  IN IF r.err \/ n.kind \notin {"file", "dir"}
       THEN [ok |-> FALSE, node |-> NoNode, loc |-> <<>>]
       ELSE [ok |-> TRUE, node |-> n, loc |-> r.loc]

is_dir(st) == st.node.kind = "dir"
is_file(st) == st.node.kind = "file"

\* st_nlink of a regular file: the directory entries naming its object.
nlink(f, n) ==
  Cardinality({l \in Locs : f[l].kind = "file" /\ ObjOf(f[l]) = ObjOf(n)})

\* An inode number no object of the tree uses: what the file system hands to
\* the first object the run creates.
FirstFreeIno(f) ==
  LET used == {RootNode.ino} \cup {f[l].ino : l \in Locs}
  IN 1 + CHOOSE i \in used : \A j \in used : j <= i

FsResult(ok, f, c, ni) == [ok |-> ok, fs |-> f, content |-> c, nextIno |-> ni]

\* An unlink that follows a final symbolic link to the file it names.
remove_file_follow(f, c, ni, p) ==
  LET r == Resolve(f, p, TRUE)
  IN IF r.err \/ r.loc \notin Locs \/ NodeAt(f, r.loc).kind \notin {"file", "symlink"}
       THEN FsResult(FALSE, f, c, ni)
       ELSE FsResult(TRUE, [f EXCEPT ![r.loc] = NoNode], c, ni)

\* fs::remove_file: unlink(2).
remove_file(f, c, ni, p) ==
  LET r == Resolve(f, p, FALSE)
  IN IF r.err \/ r.loc \notin Locs \/ NodeAt(f, r.loc).kind \notin {"file", "symlink"}
       THEN FsResult(FALSE, f, c, ni)
       ELSE FsResult(TRUE, [f EXCEPT ![r.loc] = NoNode], c, ni)

\* std::os::unix::fs::symlink: symlink(2); the link path must be free.
symlink(f, c, ni, target, p) ==
  LET r == Resolve(f, p, FALSE)
  IN IF target = <<>> \/ r.err \/ r.loc \notin Locs \/ NodeAt(f, r.loc).kind # "none"
       THEN FsResult(FALSE, f, c, ni)
       ELSE FsResult(TRUE, [f EXCEPT ![r.loc] = LinkNode(target)], c, ni)

\* fs::create_dir_all: mkdir -p; fine when the path already is a directory.
RECURSIVE create_dir_all(_, _, _, _)
create_dir_all(f, c, ni, p) ==
  IF p = <<>> THEN FsResult(TRUE, f, c, ni)
  ELSE IF metadata(f, p).ok /\ is_dir(metadata(f, p)) THEN FsResult(TRUE, f, c, ni)
  ELSE LET up == create_dir_all(f, c, ni, parent(p))
           r == Resolve(up.fs, p, FALSE)
       IN IF ~up.ok \/ r.err \/ r.loc \notin Locs \/ NodeAt(up.fs, r.loc).kind # "none"
            THEN FsResult(FALSE, up.fs, up.content, up.nextIno)
            ELSE FsResult(TRUE,
                   [up.fs EXCEPT ![r.loc] = DirNode(NodeAt(up.fs, Front(r.loc)).dev, up.nextIno)],
                   up.content, up.nextIno + 1)

EmptyContent == ""

\* fs::copy, first half: open the source for reading and the destination with
\* create + truncate (both following symbolic links).
copy_open(f, c, ni, from, to) ==
  LET src == metadata(f, from)
      r == Resolve(f, to, TRUE)
      n == NodeAt(f, r.loc)
  IN IF ~src.ok \/ ~is_file(src) \/ r.err \/ r.loc \notin Locs \/ n.kind \notin {"none", "file"}
       THEN FsResult(FALSE, f, c, ni)
     ELSE IF n.kind = "file"
       THEN FsResult(TRUE, f, [c EXCEPT ![ObjOf(n)] = EmptyContent], ni)
     ELSE LET new == FileNode(NodeAt(f, Front(r.loc)).dev, ni)
          IN FsResult(TRUE, [f EXCEPT ![r.loc] = new],
                      [o \in DOMAIN c \cup {ObjOf(new)} |->
                         IF o = ObjOf(new) THEN EmptyContent ELSE c[o]],
                      ni + 1)

\* fs::copy, second half: write what the source holds now into the destination.
copy_write(f, c, ni, from, to) ==
  LET src == metadata(f, from)
      dst == metadata(f, to)
  IN FsResult(TRUE, f, [c EXCEPT ![ObjOf(dst.node)] = c[ObjOf(src.node)]], ni)

\* ---------------------------------------------------------- SourceCounter
\* u64 arithmetic wraps modulo U64 in a release build and panics in a debug
\* build.  The modulus is scaled to the model checker's integers; every
\* count of the model is far below it.
U64 == 2^30

SourceCounter(path, inode, num_other_links) ==
  [path |-> path, inode |-> inode, num_other_links |-> num_other_links,
   paths_other_links |-> <<>>]

\* The subtraction of get_remaning_other_links overflows.
SubOverflows(c) == Len(c.paths_other_links) > c.num_other_links

get_remaning_other_links(c) ==
  (c.num_other_links - Len(c.paths_other_links)) % U64

\* add_path_other_link without the contains() test.
add_path_other_link_no_contains(c, path) ==
  IF c.path = path THEN c
  ELSE [c EXCEPT !.paths_other_links = Append(@, path)]

\* add_path_other_link without the comparison with the counter's own path.
add_path_other_link_no_self(c, path) ==
  IF path \in Range(c.paths_other_links) THEN c
  ELSE [c EXCEPT !.paths_other_links = Append(@, path)]

\* add_path_other_link counting the expected links down as well.
add_path_other_link_count_down(c, path) ==
  IF path \in Range(c.paths_other_links) THEN c
  ELSE IF c.path = path THEN c
  ELSE [c EXCEPT !.paths_other_links = Append(@, path),
                 !.num_other_links = IF @ > 0 THEN @ - 1 ELSE 0]

add_path_other_link(c, path) ==
  IF path \in Range(c.paths_other_links) THEN c
  ELSE IF c.path = path THEN c
  ELSE [c EXCEPT !.paths_other_links = Append(@, path)]

\* is_all_links_found comparing with >= on the unsigned count.
is_all_links_found_ge(c) == get_remaning_other_links(c) >= 0

is_all_links_found(c) == get_remaning_other_links(c) = 0

\* ------------------------------------------------------------------- state
VARIABLES
  fs,           \* directory entry -> node
  content,      \* <<dev, ino>> of a regular file -> its bytes
  nextIno,      \* next inode number the file system hands out
  sources,      \* the <source>... arguments, in order
  destination,  \* the <destination> argument
  pc,           \* position of main
  counters,     \* counter_map / updated_counters: inode -> SourceCounter
  todo,         \* keys updated_counters.into_iter() has not yielded yet
  cur,          \* key of the counter move_counter is working on, 0 if none
  dest_str,     \* destination_file_path of that counter
  pend,         \* paths move_counter has still to replace
  matchCount,   \* history: match with a counter under its inode -> 1 (yielded once) or 2 (more often)
  ops,          \* history: file system mutations performed, in order
  failed,       \* history: the step that ended the run, and its counter
  fs0,          \* history: the file tree before the run
  content0      \* history: the file contents before the run

vars == <<fs, content, nextIno, sources, destination, pc, counters, todo, cur,
          dest_str, pend, matchCount, ops, failed, fs0, content0>>

inputs == <<sources, destination, fs0, content0>>

\* -------------------------------------------------------------------- Init
\* a and b may be hard links of one file; s may be a symbolic link to a; m is
\* the mount point of a second device, whose inode numbers are its own; out
\* may be missing, a directory or a file.
InitialTrees ==
  {[l \in Locs |->
      IF l = <<"a">> THEN FileNode(1, 1)
      ELSE IF l = <<"b">> THEN b
      ELSE IF l = <<"s">> THEN s
      ELSE IF l = <<"m">> THEN DirNode(2, 2)
      ELSE IF l = <<"m", "a">> THEN ma
      ELSE IF l = <<"out">> THEN out
      ELSE NoNode] :
    b \in {NoNode, FileNode(1, 1), FileNode(1, 2)},
    s \in {NoNode, LinkNode(<<"a">>)},
    ma \in {NoNode, FileNode(2, 1), FileNode(2, 3)},
    out \in {NoNode, DirNode(1, 3), FileNode(1, 2)}}

InitialContent ==
  [o \in {<<1, 1>>, <<1, 2>>, <<2, 1>>, <<2, 3>>} |->
     IF o = <<1, 1>> THEN "A" ELSE IF o = <<1, 2>> THEN "B"
     ELSE IF o = <<2, 1>> THEN "C" ELSE "D"]

SourceArgs == {<<"a">>, <<".", "a">>, <<"b">>, <<"s">>, <<"m", "a">>, <<"m">>}

DestinationArgs == {<<"out">>, <<"b">>}

\* The source lists: up to MaxSources different arguments, in any order.
SourceLists ==
  {l \in UNION {[1..n -> SourceArgs] : n \in 1..MaxSources} :
     \A i, j \in 1..Len(l) : i # j => l[i] # l[j]}

NoFailure == [step |-> "none", key |-> 0]

Init ==
  /\ fs \in InitialTrees
  /\ content = InitialContent
  /\ nextIno = FirstFreeIno(fs)
  /\ sources \in SourceLists
  /\ destination \in DestinationArgs
  /\ pc = "start"
  /\ counters = <<>>
  /\ todo = {}
  /\ cur = 0
  /\ dest_str = <<>>
  /\ pend = <<>>
  /\ matchCount = <<>>
  /\ ops = <<>>
  /\ failed = NoFailure
  /\ fs0 = fs
  /\ content0 = content

Op(name, path) == [op |-> name, path |-> path]

\* Abort that records the failure and stays where it is, so that the failed
\* step is tried again.
AbortRetry(how, step, key) ==
  /\ pc' = pc
  /\ failed' = [step |-> step, key |-> key]

Abort(how, step, key) ==
  /\ pc' = how
  /\ failed' = [step |-> step, key |-> key]

Unchanged(f, c, ni) == f = fs /\ c = content /\ ni = nextIno

\* ----------------------------------------------------- main, lines 241-302
\* Every source is stat'ed (a failing stat panics), a directory or other
\* non-file is an error, and the counters are collected into the inode-keyed
\* map, a later source replacing an earlier one under the same key.
RECURSIVE counter_map(_, _, _)
counter_map(f, srcs, acc) ==
  IF srcs = <<>> THEN acc
  ELSE LET st == metadata(f, Head(srcs))
           c == SourceCounter(Head(srcs), st.node.ino, nlink(f, st.node) - 1)
       IN counter_map(f, Tail(srcs),
            [k \in DOMAIN acc \cup {c.inode} |-> IF k = c.inode THEN c ELSE acc[k]])

\* is_multiple_sources taken from the size of the map instead of the
\* number of declared sources.
is_multiple_counters == Cardinality(DOMAIN counters) > 1

is_multiple_sources == Len(sources) > 1

StatSources ==
  /\ pc = "start"
  /\ IF \E i \in 1..Len(sources) : ~metadata(fs, sources[i]).ok
       THEN Abort("panic", "stat_sources", 0) /\ UNCHANGED counters
     ELSE IF \E i \in 1..Len(sources) : ~is_file(metadata(fs, sources[i]))
       THEN Abort("error", "stat_sources", 0) /\ UNCHANGED counters
     ELSE /\ counters' = counter_map(fs, sources, <<>>)
          /\ pc' = "scan"
          /\ UNCHANGED failed
  /\ UNCHANGED <<fs, content, nextIno, inputs, todo, cur, dest_str, pend, matchCount, ops>>

\* ------------------------------------------- search_and_count, lines 106-136
\* What the glob can yield: the entries of the tree, by their path from the
\* working directory.
Entries(f) ==
  {l \in Locs : f[l].kind # "none" /\ (Len(l) = 1 \/ f[Front(l)].kind = "dir")}

RECURSIVE SumCounts(_, _)
SumCounts(mc, S) ==
  IF S = {} THEN 0
  ELSE LET x == CHOOSE x \in S : TRUE IN mc[x] + SumCounts(mc, S \ {x})

Scanned == SumCounts(matchCount, DOMAIN matchCount)

CountMatch(mc, p) ==
  [q \in DOMAIN mc \cup {p} |-> IF q = p THEN (IF p \in DOMAIN mc THEN 2 ELSE 1) ELSE mc[q]]

\* One iteration of the loop over the glob's matches: Ok(entry).
ScanMatch(p) ==
  /\ pc = "scan"
  /\ Scanned < MaxMatches
  /\ LET st == metadata(fs, p) IN
       IF ~st.ok
         THEN Abort("error", "scan", 0) /\ UNCHANGED <<counters, matchCount>>
       ELSE IF st.node.ino \in DOMAIN counters
         THEN /\ counters' = [counters EXCEPT ![st.node.ino] = add_path_other_link(@, p)]
              /\ matchCount' = CountMatch(matchCount, p)
              /\ UNCHANGED <<pc, failed>>
         ELSE UNCHANGED <<counters, matchCount, pc, failed>>
  /\ UNCHANGED <<fs, content, nextIno, inputs, todo, cur, dest_str, pend, ops>>

\* One iteration yielding Err(e): a directory the glob could not read, or a
\* stat that failed.
ScanError ==
  /\ pc = "scan"
  /\ Scanned < MaxMatches
  /\ Abort("error", "scan", 0)
  /\ UNCHANGED <<fs, content, nextIno, inputs, counters, todo, cur, dest_str, pend, matchCount, ops>>

\* The glob is exhausted: Ok(counters).
ScanEnd ==
  /\ pc = "scan"
  /\ pc' = "gate"
  /\ UNCHANGED <<fs, content, nextIno, inputs, counters, todo, cur, dest_str, pend, matchCount, ops, failed>>

\* ----------------------------------------------------- main, lines 306-314
\* any(|c| !c.is_all_links_found()) visits the map in an unspecified order and
\* stops at the first hit.  A counter whose subtraction overflows panics in a
\* debug build and wraps to a non-zero value in a release build.
GateOutcomes ==
  LET cs == {counters[k] : k \in DOMAIN counters} IN
    (IF \E c \in cs : SubOverflows(c) THEN {"panic"} ELSE {})
    \cup (IF \E c \in cs : ~is_all_links_found(c) THEN {"error"} ELSE {})
    \cup (IF \A c \in cs : ~SubOverflows(c) /\ is_all_links_found(c) THEN {"pass"} ELSE {})

Gate ==
  /\ pc = "gate"
  /\ \E o \in GateOutcomes :
       IF o = "pass"
         THEN /\ pc' = IF is_multiple_sources THEN "ensure" ELSE "move"
              /\ todo' = DOMAIN counters
              /\ UNCHANGED failed
         ELSE Abort(o, "gate", 0) /\ UNCHANGED todo
  /\ UNCHANGED <<fs, content, nextIno, inputs, counters, cur, dest_str, pend, matchCount, ops>>

\* ------------------------------------------------- ensure_dir, lines 203-219
\* `fault` is the system call that fails for a reason outside the model (an
\* I/O or permission error), if any.
EnsureDirFaults == {"none", "remove_file", "create_dir_all"}

ensure_dir(f, c, ni, path, fault) ==
  LET st == metadata(f, path) IN
    IF ~st.ok
      THEN IF fault = "create_dir_all" THEN FsResult(FALSE, f, c, ni)
           ELSE create_dir_all(f, c, ni, path)
    ELSE IF ~is_dir(st)
      THEN LET rm == remove_file(f, c, ni, path) IN
             IF fault = "remove_file" \/ ~rm.ok THEN FsResult(FALSE, f, c, ni)
             ELSE IF fault = "create_dir_all" THEN FsResult(FALSE, rm.fs, rm.content, rm.nextIno)
             ELSE create_dir_all(rm.fs, rm.content, rm.nextIno, path)
    ELSE FsResult(TRUE, f, c, ni)

\* main, lines 316-318.
EnsureDir ==
  /\ pc = "ensure"
  /\ \E fault \in EnsureDirFaults :
       LET r == ensure_dir(fs, content, nextIno, destination, fault) IN
         /\ fs' = r.fs
         /\ content' = r.content
         /\ nextIno' = r.nextIno
         /\ ops' = IF Unchanged(r.fs, r.content, r.nextIno) THEN ops
                   ELSE Append(ops, Op("ensure_dir", destination))
         /\ IF r.ok THEN pc' = "move" /\ UNCHANGED failed
            ELSE Abort("error", "ensure_dir", 0)
  /\ UNCHANGED <<inputs, counters, todo, cur, dest_str, pend, matchCount>>

\* ----------------------------------------------- move_counter, lines 173-201
\* Lines 174-187: where the content goes.
\* destination_file_path joining the file name whenever the destination exists.
destination_file_path_any(f, source, dest) ==
  LET st == metadata(f, dest) IN
    IF st.ok THEN join(dest, file_name(source.path)) ELSE dest

destination_file_path(f, source, dest) ==
  LET st == metadata(f, dest) IN
    IF st.ok
      THEN IF is_dir(st) THEN join(dest, file_name(source.path)) ELSE dest
      ELSE dest

CopyFaults == {"none", "open", "write"}

\* Lines 188-192: fs::copy.  It fails when the source or the destination
\* cannot be opened, or, the destination already created or truncated, when
\* the transfer fails.
copy(f, c, ni, from, to, fault) ==
  LET o == copy_open(f, c, ni, from, to) IN
    IF fault = "open" \/ ~o.ok THEN FsResult(FALSE, f, c, ni)
    ELSE IF fault = "write" THEN FsResult(FALSE, o.fs, o.content, o.nextIno)
    ELSE copy_write(o.fs, o.content, o.nextIno, from, to)

\* main, lines 320-322, and move_counter up to the copy: the map yields its
\* next counter (in no particular order) and the content is copied.
MoveCopy(k) ==
  /\ pc = "move"
  /\ k \in todo
  /\ LET source == counters[k]
         to == destination_file_path(fs, source, destination)
     IN \E fault \in CopyFaults :
          LET r == copy(fs, content, nextIno, source.path, to, fault) IN
            /\ fs' = r.fs
            /\ content' = r.content
            /\ nextIno' = r.nextIno
            /\ dest_str' = to
            /\ cur' = k
            /\ todo' = todo \ {k}
            /\ ops' = IF Unchanged(r.fs, r.content, r.nextIno) THEN ops
                      ELSE Append(ops, Op("copy", to))
            /\ IF r.ok
                 THEN /\ pc' = "replace"
                      /\ pend' = <<source.path>> \o source.paths_other_links
                      /\ UNCHANGED failed
                 ELSE Abort("error", "copy", k) /\ UNCHANGED pend
  /\ UNCHANGED <<inputs, counters, matchCount>>

\* --------------------------------------- replace_with_symlink, lines 140-171
ReplaceFaults == {"none", "metadata", "remove_file", "symlink"}

\* `source` is the copy, `dest` the path to replace.
replace_with_symlink(f, c, ni, source, dest, fault) ==
  LET st == metadata(f, dest) IN
    IF fault = "metadata" \/ ~st.ok THEN FsResult(FALSE, f, c, ni)
    ELSE IF is_dir(st)
      THEN IF fault = "symlink" THEN FsResult(FALSE, f, c, ni)
           ELSE symlink(f, c, ni, relative(dest, source), join(dest, file_name(source)))
    ELSE LET rm == remove_file(f, c, ni, dest) IN
           IF fault = "remove_file" \/ ~rm.ok THEN FsResult(FALSE, f, c, ni)
           ELSE IF fault = "symlink" THEN FsResult(FALSE, rm.fs, rm.content, rm.nextIno)
           ELSE LET ln == symlink(rm.fs, rm.content, rm.nextIno,
                                  relative(parent(dest), source), dest)
                IN IF ln.ok THEN ln ELSE FsResult(FALSE, rm.fs, rm.content, rm.nextIno)

\* move_counter, lines 194-200: the next path of the counter is replaced;
\* after the last one the map yields its next counter, or main returns Ok.
Replace ==
  /\ pc = "replace"
  /\ pend # <<>>
  /\ \E fault \in ReplaceFaults :
       LET r == replace_with_symlink(fs, content, nextIno, dest_str, Head(pend), fault) IN
         /\ fs' = r.fs
         /\ content' = r.content
         /\ nextIno' = r.nextIno
         /\ ops' = IF Unchanged(r.fs, r.content, r.nextIno) THEN ops
                   ELSE Append(ops, Op("replace_with_symlink", Head(pend)))
         /\ IF r.ok
              THEN /\ pend' = Tail(pend)
                   /\ pc' = IF Tail(pend) # <<>> THEN "replace"
                            ELSE IF todo # {} THEN "move" ELSE "done"
                   /\ UNCHANGED failed
              ELSE Abort("error", "replace", cur) /\ UNCHANGED pend
  /\ UNCHANGED <<inputs, counters, todo, cur, dest_str, matchCount>>

\* ------------------------------------------------------------------- Next
Next ==
  \/ StatSources
  \/ \E p \in Entries(fs) : ScanMatch(p)
  \/ ScanError
  \/ ScanEnd
  \/ Gate
  \/ EnsureDir
  \/ \E k \in todo : MoveCopy(k)
  \/ Replace

Spec == Init /\ [][Next]_vars

\* ------------------------------------------------------------- well-formed
TypeOK ==
  /\ pc \in {"start", "scan", "gate", "ensure", "move", "replace", "done", "error", "panic"}
  /\ DOMAIN fs = Locs
  /\ \A l \in Locs : fs[l].kind \in {"none", "file", "dir", "symlink"}
  /\ \A l \in Locs : fs[l].kind = "file" => ObjOf(fs[l]) \in DOMAIN content
  /\ todo \subseteq DOMAIN counters
  /\ Scanned <= MaxMatches

\* ------------------------------------------------ vocabulary of the claims
\* The paths the glob yielded that discovery looked up under a counter.
Matched == DOMAIN matchCount

\* The storage object (device, inode) a path named before the run.
StorageObject(p) == ObjOf(metadata(fs0, p).node)

\* The directory entry a path names (a final symbolic link not followed).
EntryOf(f, p) == Resolve(f, p, FALSE).loc

\* The directory entries that were hard links to an object before the run.
HardLinks0(o) == {l \in Locs : fs0[l].kind = "file" /\ ObjOf(fs0[l]) = o}

\* remainingLinks, as a number.
RemainingLinks(c) == c.num_other_links - Len(c.paths_other_links)

Counters == {counters[k] : k \in DOMAIN counters}

DiscoveryOver == pc \notin {"start", "scan"}

GateOver == pc \notin {"start", "scan", "gate"}

NothingMutated == ops = <<>> /\ fs = fs0 /\ content = content0

\* The entry is what it was before the run, bytes included.
Untouched(l) ==
  /\ fs[l] = fs0[l]
  /\ fs0[l].kind = "file" => content[ObjOf(fs0[l])] = content0[ObjOf(fs0[l])]

\* The path leads to a regular file holding the bytes c.
HoldsContent(f, ct, p, c) ==
  LET st == metadata(f, p) IN st.ok /\ is_file(st) /\ ct[ObjOf(st.node)] = c

\* ---------------------------------------------------------------------- C1
\* C1 (fail-closed gate): a mutation of the file system happens only after
\* discovery has finished with remainingLinks = 0 for every entry of the
\* batch; and once the gate is behind, an entry with remainingLinks # 0 means
\* the run has ended in an error with nothing mutated.
C1_FailClosedGate ==
  /\ ~NothingMutated => GateOver /\ \A c \in Counters : RemainingLinks(c) = 0
  /\ (GateOver /\ \E c \in Counters : RemainingLinks(c) # 0)
       => pc \in {"error", "panic"} /\ NothingMutated

\* The gate has refused a batch in which a link is still missing.
C1_Witness ==
  /\ failed.step = "gate"
  /\ pc = "error"
  /\ \E c \in Counters : RemainingLinks(c) > 0 /\ c.path \in Matched

\* ---------------------------------------------------------------------- C2
\* C2 (full coverage): after a successful run, for every declared source all
\* of whose N hard-link paths the pattern matched, each of the N paths is a
\* symbolic link resolving to one destination file, which holds the source's
\* content and is the only file object holding it.
C2_FullCoverage ==
  pc = "done" =>
    \A i \in 1..Len(sources) :
      LET o == StorageObject(sources[i]) IN
        HardLinks0(o) \subseteq Matched =>
          \E d \in Locs :
            /\ fs[d].kind = "file"
            /\ content[ObjOf(fs[d])] = content0[o]
            /\ \A l \in HardLinks0(o) :
                 fs[l].kind = "symlink" /\ metadata(fs, l).ok /\ metadata(fs, l).loc = d
            /\ \A e \in Locs :
                 (fs[e].kind = "file" /\ content[ObjOf(fs[e])] = content0[o])
                   => ObjOf(fs[e]) = ObjOf(fs[d])

\* ---------------------------------------------------------------------- C3
\* C3 (completeness before relocation): when the relocator works on an entry,
\* every directory entry other than sourcePath that was a hard link to the
\* source's storage object is in discoveredOtherLinks.
C3_CompleteBeforeRelocation ==
  cur # 0 =>
    LET c == counters[cur] IN
      \A l \in HardLinks0(StorageObject(c.path)) :
        l # EntryOf(fs0, c.path) => l \in Range(c.paths_other_links)

\* ---------------------------------------------------------------------- C4
\* C4 (inventory bound): |discoveredOtherLinks| <= expectedOtherLinks for
\* every entry in every state, so the subtraction never underflows.
C4_InventoryBound ==
  \A c \in Counters : Len(c.paths_other_links) <= c.num_other_links

\* ---------------------------------------------------------------------- C5
\* C5 (destination resolution): the step that copies an entry's content
\* directs it to destination/basename(sourcePath) when the destination is an
\* existing directory at that moment, and to the literal destination in
\* every other case; after a copy that succeeded a regular file is there.
ExistingDirectory(f, p) ==
  \E l \in Locs : metadata(f, p).ok /\ metadata(f, p).loc = l /\ f[l].kind = "dir"

Basename(p) == LET q == SelectSeq(p, LAMBDA x : x # ".") IN q[Len(q)]

ExpectedDestinationPath(f, src, dest) ==
  IF ExistingDirectory(f, dest) THEN dest \o <<Basename(src)>> ELSE dest

C5_DestinationResolution ==
  [][pc = "move" =>
       /\ dest_str' = ExpectedDestinationPath(fs, counters[cur'].path, destination)
       /\ ops' # ops => ops'[Len(ops')] = Op("copy", dest_str')
       /\ pc' = "replace" => metadata(fs', dest_str').ok /\ is_file(metadata(fs', dest_str'))
    ]_vars

\* A copy has gone into the existing destination directory, under the
\* source's file name.
C5_Witness ==
  /\ pc = "replace"
  /\ dest_str = join(destination, file_name(counters[cur].path))
  /\ fs[dest_str].kind = "file"

\* ---------------------------------------------------------------------- C6
\* C6 (independent batch sources): after a successful run of a batch of two
\* sources with different storage ids, all of whose hard-link paths the
\* pattern matched, every original path of each source leads to a file that
\* holds that source's content.
C6_IndependentSources ==
  (pc = "done" /\ Len(sources) = 2) =>
    LET o1 == StorageObject(sources[1])
        o2 == StorageObject(sources[2])
    IN (o1 # o2 /\ HardLinks0(o1) \cup HardLinks0(o2) \subseteq Matched) =>
         /\ \A l \in HardLinks0(o1) : HoldsContent(fs, content, l, content0[o1])
         /\ \A l \in HardLinks0(o2) : HoldsContent(fs, content, l, content0[o2])

\* ---------------------------------------------------------------------- C7
\* C7 (deduplication): discoveredOtherLinks never holds a path twice, and a
\* match of a path that was matched before leaves every entry as it was.
NoDuplicates(s) == \A i, j \in 1..Len(s) : s[i] = s[j] => i = j

C7_Deduplication ==
  /\ [](\A c \in Counters : NoDuplicates(c.paths_other_links))
  /\ [][(\E p \in Matched : matchCount'[p] # matchCount[p]) => counters' = counters]_vars

\* A path recorded for an entry has been matched a second time.
C7_Witness ==
  \E c \in Counters : \E p \in Range(c.paths_other_links) : matchCount[p] = 2

\* ---------------------------------------------------------------------- C8
\* C8 (self-identity): sourcePath is never a member of its entry's
\* discoveredOtherLinks, and a match equal to an entry's sourcePath leaves
\* that entry (so its remainingLinks) as it was.
C8_SelfIdentity ==
  /\ [](\A c \in Counters : c.path \notin Range(c.paths_other_links))
  /\ [][\A k \in DOMAIN counters :
          (pc = "scan" /\ counters[k].path \in DOMAIN matchCount'
             /\ (counters[k].path \notin Matched
                   \/ matchCount'[counters[k].path] # matchCount[counters[k].path]))
            => counters'[k] = counters[k]]_vars

\* An entry's own sourcePath has been matched, the entry having other links.
C8_Witness ==
  \E c \in Counters : c.path \in Matched /\ c.num_other_links > 0

\* ---------------------------------------------------------------------- C9
\* C9 (attribution by storage object): every path in an entry's
\* discoveredOtherLinks references the same device and the same inode as the
\* entry's sourcePath.
C9_SameStorageObject ==
  \A c \in Counters : \A p \in Range(c.paths_other_links) :
    StorageObject(p) = StorageObject(c.path)

\* --------------------------------------------------------------------- C10
\* C10 (copy before touch): when the run has ended because an entry's copy
\* failed, sourcePath and every path in discoveredOtherLinks of that entry
\* are what they were before the run.
C10_CopyBeforeTouch ==
  failed.step = "copy" =>
    LET c == counters[failed.key] IN
      \A p \in {c.path} \cup Range(c.paths_other_links) : Untouched(EntryOf(fs0, p))

\* --------------------------------------------------------------------- C11
\* move_counter has just returned Ok for the counter cur.
JustRelocated == cur # 0 /\ pend = <<>> /\ pc \in {"move", "done"}

\* C11 (content preservation): when an entry has been relocated successfully,
\* the file at its destinationPath holds the content the source had before
\* the run.
C11_ContentPreserved ==
  JustRelocated =>
    HoldsContent(fs, content, dest_str, content0[StorageObject(counters[cur].path)])

\* --------------------------------------------------------------------- C12
\* A replace step that removed the path and then failed to create the link.
RemovedThenFailed == pc = "replace" /\ failed'.step = "replace" /\ fs' # fs

\* C12 (non-atomic replace, no rollback): when the removal of a path succeeds
\* and the creation of its symbolic link fails, the run aborts with that path
\* missing, every other entry (the links made earlier included) as it was,
\* and the copy still a regular file at destinationPath.
C12_NoRollback ==
  [][RemovedThenFailed =>
       LET gone == EntryOf(fs, Head(pend)) IN
         /\ pc' = "error"
         /\ fs'[gone].kind = "none"
         /\ \A l \in Locs \ {gone} : fs'[l] = fs[l]
         /\ content' = content
         /\ metadata(fs', dest_str).ok /\ is_file(metadata(fs', dest_str))
    ]_vars

\* --------------------------------------------------------------------- C13
PathsOf(c) == {c.path} \cup Range(c.paths_other_links)

BeforeFirstCopy == pc = "move" /\ cur = 0

\* C14 (multi-source destination): with more than one declared source the
\* destination is a directory when the first copy is about to start; with
\* exactly one source nothing has been created or altered by then.
C14_MultiSourceDestination ==
  /\ (BeforeFirstCopy /\ Len(sources) > 1) =>
        /\ ExistingDirectory(fs, destination)
        /\ \A l \in Locs \ {EntryOf(fs0, destination)} : fs[l] = fs0[l]
        /\ content = content0
  /\ (BeforeFirstCopy /\ Len(sources) = 1) => NothingMutated
  /\ (pc = "ensure" => Len(sources) > 1 /\ NothingMutated)

\* A non-directory at the destination of a batch has been replaced by a
\* directory before the first copy.
C14_Witness ==
  /\ BeforeFirstCopy
  /\ Len(sources) > 1
  /\ fs0[EntryOf(fs0, destination)].kind = "file"
  /\ fs[EntryOf(fs0, destination)].kind = "dir"

\* --------------------------------------------------------------------- C15
IsPrefix(s, t) == Len(s) <= Len(t) /\ SubSeq(t, 1, Len(s)) = s

\* C15 (discovery is read-only): a step of the discovery phase, failing or
\* not, changes no file system object; in the map it keeps the key set and
\* each entry's path, inode and num_other_links, and only appends to
\* paths_other_links.
C15_DiscoveryReadOnly ==
  /\ [](pc \in {"scan", "gate"} => NothingMutated)
  /\ [][pc = "scan" =>
          /\ fs' = fs /\ content' = content /\ nextIno' = nextIno /\ ops' = ops
          /\ DOMAIN counters' = DOMAIN counters
          /\ \A k \in DOMAIN counters :
               /\ counters'[k].path = counters[k].path
               /\ counters'[k].inode = counters[k].inode
               /\ counters'[k].num_other_links = counters[k].num_other_links
               /\ IsPrefix(counters[k].paths_other_links, counters'[k].paths_other_links)
       ]_vars

\* Discovery has finished after adding a path to an entry.
C15_Witness ==
  pc = "gate" /\ \E c \in Counters : c.paths_other_links # <<>>

\* --------------------------------------------------------------------- C16
\* The map has been built from the declared sources.
MapBuilt == pc # "start" /\ failed.step # "stat_sources"

SourceObjects == {StorageObject(sources[i]) : i \in 1..Len(sources)}

\* The last declared source naming the storage object o.
LastDeclared(o) ==
  LET i == CHOOSE i \in 1..Len(sources) :
             /\ StorageObject(sources[i]) = o
             /\ \A j \in 1..Len(sources) : StorageObject(sources[j]) = o => j <= i
  IN sources[i]

\* C16 (shared storage id): the map holds exactly one entry per storage id
\* (device and inode) of the declared sources, and the entry's sourcePath is
\* the last declared source of that storage id.
C16_OneEntryPerStorageId ==
  MapBuilt =>
    /\ Cardinality(DOMAIN counters) = Cardinality(SourceObjects)
    /\ \A o \in SourceObjects :
         \E k \in DOMAIN counters :
           /\ StorageObject(counters[k].path) = o
           /\ counters[k].path = LastDeclared(o)

\* --------------------------------------------------------------------- C17
\* Every declared source and every discovered path is a non-directory.
IsDirectory(p) == metadata(fs0, p).ok /\ is_dir(metadata(fs0, p))

NoDirectoryInvolved ==
  /\ \A i \in 1..Len(sources) : ~IsDirectory(sources[i])
  /\ \A c \in Counters : \A p \in Range(c.paths_other_links) : ~IsDirectory(p)

\* The directory entries of the paths the run may remove, create or overwrite.
Footprint ==
  {EntryOf(fs0, destination)}
    \cup {Append(Resolve(fs0, destination, TRUE).loc, Basename(c.path)) : c \in Counters}
    \cup UNION {{EntryOf(fs0, p) : p \in PathsOf(c)} : c \in Counters}

FileObjectAt(p) ==
  IF metadata(fs0, p).ok /\ is_file(metadata(fs0, p))
    THEN {ObjOf(metadata(fs0, p).node)} ELSE {}

OverwrittenInPlace ==
  FileObjectAt(destination)
    \cup UNION {FileObjectAt(destination \o <<Basename(c.path)>>) : c \in Counters}

\* The destination is one path component in the working directory and no
\* symbolic link stands there.
PlainDestination ==
  Len(destination) = 1 /\ NodeAt(fs0, destination).kind # "symlink"

====
